---------------------------- MODULE Spec2Model ----------------------------
(***************************************************************************)
(* wikimcp: an MCP server exposing four Wiki.js GraphQL operations as      *)
(* tools (wiki_list_pages, wiki_get_page, wiki_create_page,                *)
(* wiki_update_page).                                                      *)
(*                                                                         *)
(* The sources hold four revisions of the same server:                     *)
(*   "variations"  src/src/index.ts    1- 764  (generatePathVariations)     *)
(*   "single"      src/src/index.ts  765-1407  (one normalized attempt)     *)
(*   "twoAttempt"  src/src/index.ts 1408-2158  (normalized, then "/"+path)  *)
(*   "addSlash"    src/unnamed/part_000        (normalizePath adds "/")     *)
(* The variable rev fixes the revision a process runs.                     *)
(*                                                                         *)
(* A string is a sequence of one-character strings.  An argument value is  *)
(* a record [t, v]: t is the JavaScript typeof ("absent" when the key is   *)
(* not in the bag), v the value.                                           *)
(*                                                                         *)
(* One tool call is in progress at a time.  A handler runs from one await  *)
(* of graphqlClient.request to the next in one step; the wiki's response   *)
(* is chosen when the handler resumes.  reqs, created, lastReply, found    *)
(* and threw record what the call has sent and received; the handlers do   *)
(* not read them.                                                          *)
(***************************************************************************)
EXTENDS Integers, Sequences, FiniteSets, TLC

\* ------------------------------------------------------------------ bounds
MaxLen == 4
MaxId == 1
MaxPageId == 2
MaxPages == 2

\* ----------------------------------------------------------------- strings
Chars == {"/", "a"}
Letters == {"a", "j", "e", "n"}

Paths == UNION {[1..n -> Chars] : n \in 0..MaxLen}

startsWith(s, c) == Len(s) >= 1 /\ s[1] = c

substring1(s) == SubSeq(s, 2, Len(s))

includes(list, x) == \E k \in 1..Len(list) : list[k] = x

Slash == <<"/">>
JaPrefix == <<"j", "a", "/">>
EnPrefix == <<"e", "n", "/">>

\* src/src/index.ts 215-220 (and 979-981, 1622-1624): strip one leading "/"
normalizePath(path) ==
    IF startsWith(path, "/") THEN substring1(path) ELSE path

\* src/unnamed/part_000 207-209: add a leading "/" when there is none
normalizePathSlash(path) ==
    IF startsWith(path, "/") THEN path ELSE Slash \o path

\* /^[a-z]{2}\//i
hasLangPrefix(p) ==
    /\ Len(p) >= 3
    /\ p[1] \in Letters
    /\ p[2] \in Letters
    /\ p[3] = "/"

\* generatePathVariations without the two `includes` tests
generatePathVariationsNoIncludes(path) ==
    LET originalPath == path
        normalizedPath == normalizePath(originalPath)
        lang == hasLangPrefix(normalizedPath)
        v0 == IF ~lang
              THEN <<JaPrefix \o normalizedPath, Slash \o JaPrefix \o normalizedPath>>
              ELSE <<normalizedPath>>
        v1 == Append(v0, normalizedPath)
        v2 == IF ~startsWith(originalPath, "/")
              THEN Append(v1, Slash \o originalPath)
              ELSE v1
        v3 == IF ~lang
              THEN v2 \o <<EnPrefix \o normalizedPath, Slash \o EnPrefix \o normalizedPath>>
              ELSE v2
    IN v3

generatePathVariations(path) ==
    LET originalPath == path
        normalizedPath == normalizePath(originalPath)
        lang == hasLangPrefix(normalizedPath)
        v0 == IF ~lang
              THEN <<JaPrefix \o normalizedPath, Slash \o JaPrefix \o normalizedPath>>
              ELSE <<normalizedPath>>
        v1 == IF ~includes(v0, normalizedPath) THEN Append(v0, normalizedPath) ELSE v0
        v2 == IF ~startsWith(originalPath, "/") /\ ~includes(v1, Slash \o originalPath)
              THEN Append(v1, Slash \o originalPath)
              ELSE v1
        v3 == IF ~lang
              THEN v2 \o <<EnPrefix \o normalizedPath, Slash \o EnPrefix \o normalizedPath>>
              ELSE v2
    IN v3


\* --------------------------------------------------------- argument values

Field(t, v) == [t |-> t, v |-> v]

IdValues ==
    {Field("absent", 0), Field("string", 0)} \cup {Field("number", n) : n \in 0..MaxId}
PathValues ==
    {Field("absent", <<>>), Field("number", <<>>)} \cup {Field("string", p) : p \in Paths}
TitleValues == {Field("absent", ""), Field("number", ""), Field("string", "T")}
ContentValues == {Field("absent", ""), Field("number", ""), Field("string", "C")}
EditorValues == {Field("absent", ""), Field("string", ""), Field("string", "html")}
PublishedValues == {Field("absent", FALSE), Field("boolean", FALSE)}
OrderByValues == {Field("absent", ""), Field("string", ""), Field("string", "ID")}
LimitValues == {Field("absent", 0), Field("number", 0), Field("number", 5)}

\* JavaScript truthiness of an id value: 0 is falsy, a non-empty string truthy
idTruthy(f) == f.t = "string" \/ (f.t = "number" /\ f.v # 0)
\* JavaScript truthiness of a path value: "" is falsy, a number such as 7 truthy
pathTruthy(f) == f.t = "number" \/ (f.t = "string" /\ f.v # <<>>)

EmptyBag(kind) ==
    [kind |-> kind,
     id |-> Field("absent", 0), path |-> Field("absent", <<>>),
     title |-> Field("absent", ""), content |-> Field("absent", ""),
     editor |-> Field("absent", ""), isPublished |-> Field("absent", FALSE),
     orderBy |-> Field("absent", ""), limit |-> Field("absent", 0)]

\* kind "absent": arguments undefined/null; "scalar": a truthy non-object;
\* "object": a bag of keys
NonObjectBags == {EmptyBag("absent"), EmptyBag("scalar")}

ListBags ==
    {[EmptyBag("object") EXCEPT !.orderBy = o, !.limit = l] :
        o \in OrderByValues, l \in LimitValues}
GetBags ==
    {[EmptyBag("object") EXCEPT !.id = d, !.path = p] :
        d \in IdValues, p \in PathValues}
CreateBags ==
    {[EmptyBag("object") EXCEPT !.path = p, !.title = t, !.content = c,
                                !.editor = e, !.isPublished = b] :
        p \in PathValues, t \in TitleValues, c \in ContentValues,
        e \in EditorValues, b \in PublishedValues}
UpdateBags ==
    {[EmptyBag("object") EXCEPT !.id = d, !.path = p, !.title = t, !.content = c,
                                !.editor = e, !.isPublished = b] :
        d \in IdValues, p \in PathValues,
        t \in {Field("absent", ""), Field("string", "T")},
        c \in {Field("absent", ""), Field("string", "C")},
        e \in {Field("absent", ""), Field("string", "html")},
        b \in PublishedValues}

ToolNames == <<"wiki_list_pages", "wiki_get_page", "wiki_create_page", "wiki_update_page">>

BagsFor(n) ==
    NonObjectBags \cup
    CASE n = "wiki_list_pages" -> ListBags
      [] n = "wiki_get_page" -> GetBags
      [] n = "wiki_create_page" -> CreateBags
      [] n = "wiki_update_page" -> UpdateBags
      [] OTHER -> GetBags

isObject(a) == a.kind = "object"

\* isListPagesArgs demanding the optional orderBy
isListPagesArgsWithOrderBy(a) == isObject(a) /\ a.orderBy.t = "string"

isListPagesArgs(a) == isObject(a)

\* isGetPageArgs without the test of id and path
isGetPageArgsAnyObject(a) == isObject(a)

isGetPageArgs(a) ==
    /\ isObject(a)
    /\ \/ (a.id.t # "absent" /\ a.id.t = "number")
       \/ (a.path.t # "absent" /\ a.path.t = "string")

\* isCreatePageArgs testing the path only
isCreatePageArgsPathOnly(a) ==
    /\ isObject(a)
    /\ a.path.t # "absent" /\ a.path.t = "string"

isCreatePageArgs(a) ==
    /\ isObject(a)
    /\ a.path.t # "absent" /\ a.path.t = "string"
    /\ a.title.t # "absent" /\ a.title.t = "string"
    /\ a.content.t # "absent" /\ a.content.t = "string"

isUpdatePageArgs(a) ==
    /\ isObject(a)
    /\ \/ (a.id.t # "absent" /\ a.id.t = "number")
       \/ (a.path.t # "absent" /\ a.path.t = "string")

\* ----------------------------------------------------------- tool results
Text(kind) ==
    [kind |-> kind, msg |-> "", name |-> "", title |-> "", content |-> "",
     id |-> Field("absent", 0), path |-> <<>>, n |-> 0]

ToolCallResult(text, isError) ==
    [settled |-> "resolved",
     content |-> <<[type |-> "text", text |-> text]>>,
     isError |-> isError]

Pending == [settled |-> "pending", content |-> <<>>, isError |-> FALSE]
Rejected == [settled |-> "rejected", content |-> <<>>, isError |-> FALSE]

\* The catch-all rethrowing instead of returning a result
OuterCatchRethrow(msg) == Rejected

\* catch-all of the CallTool handler: `Error: ${message}`
OuterCatch(msg) == ToolCallResult([Text("error") EXCEPT !.msg = msg], TRUE)


\* ------------------------------------------------------- server responses
\* A page id of the wiki is a positive serial number.
PageIds == 1..MaxPageId

NoPage == [id |-> 0, title |-> "", content |-> ""]
PageRecords == [id : PageIds, title : {"P"}, content : {"", "body"}]

\* What graphqlClient.request does for a query: it throws, or returns data
\* that is falsy ("nodata"), has no pages ("nopages"), has a null field
\* pages.single / pages.singleByPath ("null"), or holds a page ("page").
QueryReplies ==
    {[shape |-> sh, page |-> NoPage] : sh \in {"throw", "nodata", "nopages", "null"}}
    \cup {[shape |-> "page", page |-> pg] : pg \in PageRecords}

\* For the list query: pages.list missing ("nolist") or a list of n records.
ListReplies ==
    {[shape |-> sh, n |-> 0] : sh \in {"throw", "nodata", "nopages", "nolist"}}
    \cup {[shape |-> "list", n |-> k] : k \in 0..MaxPages}

\* A message is a sequence of fragments: the empty message, the known
\* signature alone, the signature inside a longer message, another message.
QuirkSignature == <<"Cannot read properties of undefined (reading 'map')">>
Messages ==
    {<<>>, QuirkSignature, <<"TypeError: ">> \o QuirkSignature, <<"Forbidden">>}
MessageValues == {Field("absent", <<>>)} \cup {Field("string", m) : m \in Messages}

\* String.prototype.includes
strIncludes(s, sub) ==
    \E k \in 0..(Len(s) - Len(sub)) : SubSeq(s, k + 1, k + Len(sub)) = sub

\* What graphqlClient.request does for a mutation.  rr is responseResult:
\* "none" (missing), "ok" (succeeded true), "fail" (succeeded false);
\* page is the returned page object, title "" when there is none.
MutationPages == {[id |-> 0, title |-> ""], [id |-> 1, title |-> "T"]}

MutationReplies ==
    {[shape |-> sh, rr |-> "none", msg |-> Field("absent", <<>>), page |-> [id |-> 0, title |-> ""]] :
        sh \in {"throw", "nodata", "nopages", "nofield"}}
    \cup {[shape |-> "result", rr |-> r, msg |-> Field("absent", <<>>), page |-> pg] :
            r \in {"none", "ok"}, pg \in MutationPages}
    \cup {[shape |-> "result", rr |-> "fail", msg |-> m, page |-> pg] :
            m \in MessageValues, pg \in MutationPages}

NoReply == [shape |-> "none", rr |-> "none", msg |-> Field("absent", <<>>),
            page |-> [id |-> 0, title |-> ""]]

hasPage(reply) == reply.page.id # 0

\* -------------------------------------------------------------- requests
Request(op) ==
    [op |-> op, id |-> Field("absent", 0), path |-> <<>>,
     title |-> Field("absent", ""), content |-> Field("absent", ""),
     editor |-> Field("absent", ""), isPublished |-> Field("absent", FALSE),
     description |-> Field("absent", ""),
     orderBy |-> Field("absent", ""), limit |-> Field("absent", 0)]

ListRequest(a) ==
    [Request("list") EXCEPT
        !.orderBy = IF a.orderBy.t = "string" /\ a.orderBy.v # "" THEN a.orderBy
                    ELSE Field("string", "TITLE"),
        !.limit = IF a.limit.t = "number" /\ a.limit.v # 0 THEN a.limit
                  ELSE Field("number", 10)]

SingleRequest(idf) == [Request("single") EXCEPT !.id = idf]

SingleByPathRequest(p) == [Request("singleByPath") EXCEPT !.path = p]

\* ----------------------------------------------------------------- state
Revisions == {"variations", "single", "twoAttempt", "addSlash"}
\* An environment variable is not set, set to the empty string, or set.
EnvValues == {"unset", "", "set"}

\* `process.env.X || ''`
envOrEmpty(v) == IF v = "unset" THEN "" ELSE v

VARIABLES
    rev,         \* the revision of the server this process runs
    env,         \* [WIKI_API_URL, WIKI_API_TOKEN]
    exitCode,    \* -1 while the process runs
    pc,          \* "boot", "exited", "idle", an await point, or "done"
    tools,       \* the last ListTools response
    name,        \* request.params.name of the call in progress
    args,        \* request.params.arguments of the call in progress
    variations,  \* pathVariations of the call in progress
    i,           \* loop index into variations (1-based)
    pageId,      \* pageId of wiki_update_page
    reqs,        \* the requests the call has issued, in order
    created,     \* create mutations of this call the wiki has accepted
    lastReply,   \* the mutation response the call returned on
    found,       \* id of the page a by-path lookup returned, else 0
    threw,       \* some request of this call has thrown
    listed,      \* number of records the list request returned, else -1
    answered,    \* number of requests of this call that have settled
    result       \* the ToolCallResult of the call

vars == <<rev, env, exitCode, pc, tools, name, args, variations, i, pageId,
          reqs, created, lastReply, found, threw, listed, answered, result>>

callVars == <<name, args, variations, i, pageId, reqs, created, lastReply, found,
              threw, listed, answered, result>>

Init ==
    /\ rev \in Revisions
    /\ env \in [WIKI_API_URL : EnvValues, WIKI_API_TOKEN : EnvValues]
    /\ exitCode = -1
    /\ pc = "boot"
    /\ tools = <<>>
    /\ name = ""
    /\ args = EmptyBag("absent")
    /\ variations = <<>>
    /\ i = 0
    /\ pageId = Field("absent", 0)
    /\ reqs = <<>>
    /\ created = 0
    /\ lastReply = NoReply
    /\ found = 0
    /\ threw = FALSE
    /\ listed = -1
    /\ answered = 0
    /\ result = Pending

\* Module top level: the environment checks, then runServer
\* Startup without the check of WIKI_API_TOKEN
StartupUrlOnly ==
    /\ pc = "boot"
    /\ IF envOrEmpty(env.WIKI_API_URL) = ""
       THEN pc' = "exited" /\ exitCode' = 1
       ELSE pc' = "idle" /\ exitCode' = exitCode
    /\ UNCHANGED <<rev, env, tools>>
    /\ UNCHANGED callVars

Startup ==
    /\ pc = "boot"
    /\ IF envOrEmpty(env.WIKI_API_URL) = "" \/ envOrEmpty(env.WIKI_API_TOKEN) = ""
       THEN pc' = "exited" /\ exitCode' = 1
       ELSE pc' = "idle" /\ exitCode' = exitCode
    /\ UNCHANGED <<rev, env, tools>>
    /\ UNCHANGED callVars

ListTools ==
    /\ pc = "idle"
    /\ tools' = ToolNames
    /\ UNCHANGED <<rev, env, exitCode, pc>>
    /\ UNCHANGED callVars

\* The handler returns: the promise of the call settles with res.
Return(res) ==
    /\ pc' = "done"
    /\ result' = res
    /\ reqs' = reqs

\* The handler awaits graphqlClient.request(...) at the await point next.
Await(next, req) ==
    /\ pc' = next
    /\ reqs' = Append(reqs, req)
    /\ result' = result


\* ------------------------------------------------------- wiki_list_pages
ListStart(a) ==
    /\ IF ~isListPagesArgs(a)
       THEN Return(OuterCatch("Invalid arguments for wiki_list_pages"))
       ELSE Await("list", ListRequest(a))
    /\ UNCHANGED <<variations, i, pageId, created>>

\* ListResult without the `pages.length > 0` test
ListResultAlwaysFormats(r) ==
    CASE r.shape = "throw" -> OuterCatch("transport error")
      [] r.shape \in {"nodata", "nopages", "nolist"} -> OuterCatch("TypeError")
      [] OTHER -> ToolCallResult([Text("pageList") EXCEPT !.n = r.n], FALSE)

\* typedData.pages.list is read unguarded and pages.map is called on it: a
\* response without it throws a TypeError into the catch-all.
ListResult(r) ==
    CASE r.shape = "throw" -> OuterCatch("transport error")
      [] r.shape \in {"nodata", "nopages", "nolist"} -> OuterCatch("TypeError")
      [] r.shape = "list" /\ r.n > 0 ->
            ToolCallResult([Text("pageList") EXCEPT !.n = r.n], FALSE)
      [] OTHER -> ToolCallResult(Text("No pages found"), FALSE)

ListReply ==
    /\ pc = "list"
    /\ \E r \in ListReplies :
         /\ threw' = (threw \/ r.shape = "throw")
         /\ answered' = answered + 1
         /\ listed' = IF r.shape = "list" THEN r.n ELSE listed
         /\ Return(ListResult(r))
    /\ UNCHANGED <<rev, env, exitCode, tools, name, args, variations, i, pageId, created,
                   lastReply, found>>

\* --------------------------------------------------------- wiki_get_page
\* `Error fetching page: ${message}`
FetchError(msg) == ToolCallResult([Text("Error fetching page") EXCEPT !.msg = msg], TRUE)

\* `Page not found for ${args.id ? `ID: ${args.id}` : `path: ${args.path}`}`
GetNotFound(a) ==
    IF idTruthy(a.id)
    THEN ToolCallResult([Text("Page not found for ID") EXCEPT !.id = a.id], TRUE)
    ELSE ToolCallResult([Text("Page not found for path") EXCEPT !.path = a.path.v], TRUE)

\* `# ${page.title}\n\n${page.content}`
PageResult(pg) ==
    ToolCallResult([Text("page") EXCEPT !.title = pg.title, !.content = pg.content], FALSE)

\* attemptPaths with a second pass over the same paths
attemptPathsTwice(r, p) ==
    CASE r = "variations" -> generatePathVariations(p) \o generatePathVariations(p)
      [] r = "single" -> <<normalizePath(p), normalizePath(p)>>
      [] r = "twoAttempt" ->
            IF ~startsWith(p, "/") THEN <<normalizePath(p), Slash \o p>>
            ELSE <<normalizePath(p)>>
      [] OTHER -> <<normalizePathSlash(p), normalizePathSlash(p)>>

\* The paths wiki_get_page and wiki_create_page send, in order, when every
\* attempt fails.
attemptPaths(r, p) ==
    CASE r = "variations" -> generatePathVariations(p)
      [] r = "single" -> <<normalizePath(p)>>
      [] r = "twoAttempt" ->
            IF ~startsWith(p, "/") THEN <<normalizePath(p), Slash \o p>>
            ELSE <<normalizePath(p)>>
      [] OTHER -> <<normalizePathSlash(p)>>

GetStart(a) ==
    /\ IF ~isGetPageArgs(a)
       THEN Return(OuterCatch("Invalid arguments for wiki_get_page"))
                /\ UNCHANGED <<variations, i>>
       ELSE IF idTruthy(a.id)
       THEN Await("getById", SingleRequest(a.id)) /\ UNCHANGED <<variations, i>>
       ELSE IF pathTruthy(a.path)
       THEN IF a.path.t # "string"
            THEN Return(FetchError("path.startsWith is not a function"))
                    /\ UNCHANGED <<variations, i>>
            ELSE /\ variations' = attemptPaths(rev, a.path.v)
                 /\ i' = 1
                 /\ Await("getByPath", SingleByPathRequest(variations'[1]))
       ELSE Return(FetchError("Either id or path must be provided"))
                /\ UNCHANGED <<variations, i>>
    /\ UNCHANGED <<pageId, created>>

\* QueryOutcome taking a returned page for a miss: the loop without its break
QueryOutcomeNoBreak(r, reply) ==
    CASE reply.shape = "throw" -> "throw"
      [] reply.shape \in {"nodata", "nopages"} /\ r = "addSlash" -> "throw"
      [] OTHER -> "missing"

\* `typedData && typedData.pages && typedData.pages.single`; the addSlash
\* revision reads typedData.pages.single unguarded.
QueryOutcome(r, reply) ==
    CASE reply.shape = "throw" -> "throw"
      [] reply.shape = "page" -> "found"
      [] reply.shape \in {"nodata", "nopages"} /\ r = "addSlash" -> "throw"
      [] OTHER -> "missing"

GetByIdReply ==
    /\ pc = "getById"
    /\ \E reply \in QueryReplies :
         LET o == QueryOutcome(rev, reply) IN
         /\ threw' = (threw \/ reply.shape = "throw")
         /\ answered' = answered + 1
         /\ CASE o = "throw" -> Return(FetchError("request failed"))
              [] o = "found" -> Return(PageResult(reply.page))
              [] OTHER -> Return(GetNotFound(args))
    /\ UNCHANGED <<rev, env, exitCode, tools, listed, name, args, variations, i, pageId, created,
                   lastReply, found>>

\* GetByPathReply with the try around the loop instead of inside it
GetByPathReplyThrowEnds ==
    /\ pc = "getByPath"
    /\ \E reply \in QueryReplies :
         LET o == QueryOutcome(rev, reply) IN
         /\ threw' = (threw \/ reply.shape = "throw")
         /\ found' = IF reply.shape = "page" THEN reply.page.id ELSE found
         /\ answered' = answered + 1
         /\ CASE o = "found" -> Return(PageResult(reply.page)) /\ i' = i
              [] rev = "variations" /\ o = "throw" ->
                    Return(FetchError("request failed")) /\ i' = i
              [] rev = "variations" ->
                    IF i < Len(variations)
                    THEN i' = i + 1 /\ Await("getByPath", SingleByPathRequest(variations[i + 1]))
                    ELSE Return(GetNotFound(args)) /\ i' = i
              [] rev = "twoAttempt" /\ o = "missing" ->
                    IF i = 1 /\ Len(variations) = 2
                    THEN i' = 2 /\ Await("getByPath", SingleByPathRequest(variations[2]))
                    ELSE Return(GetNotFound(args)) /\ i' = i
              [] rev = "twoAttempt" /\ o = "throw" ->
                    \* catch (pathError): the fallback attempt, also after a
                    \* throw of the second attempt
                    IF Len(variations) = 2
                    THEN i' = i /\ Await("getFallback", SingleByPathRequest(variations[2]))
                    ELSE Return(GetNotFound(args)) /\ i' = i
              [] o = "throw" -> Return(FetchError("request failed")) /\ i' = i
              [] OTHER -> Return(GetNotFound(args)) /\ i' = i
    /\ UNCHANGED <<rev, env, exitCode, tools, listed, name, args, variations, pageId, created,
                   lastReply>>

GetByPathReply ==
    /\ pc = "getByPath"
    /\ \E reply \in QueryReplies :
         LET o == QueryOutcome(rev, reply) IN
         /\ threw' = (threw \/ reply.shape = "throw")
         /\ found' = IF reply.shape = "page" THEN reply.page.id ELSE found
         /\ answered' = answered + 1
         /\ CASE o = "found" -> Return(PageResult(reply.page)) /\ i' = i
              [] rev = "variations" ->
                    \* the loop: a throw is caught per variant
                    IF i < Len(variations)
                    THEN i' = i + 1 /\ Await("getByPath", SingleByPathRequest(variations[i + 1]))
                    ELSE Return(GetNotFound(args)) /\ i' = i
              [] rev = "twoAttempt" /\ o = "missing" ->
                    IF i = 1 /\ Len(variations) = 2
                    THEN i' = 2 /\ Await("getByPath", SingleByPathRequest(variations[2]))
                    ELSE Return(GetNotFound(args)) /\ i' = i
              [] rev = "twoAttempt" /\ o = "throw" ->
                    \* catch (pathError): the fallback attempt, also after a
                    \* throw of the second attempt
                    IF Len(variations) = 2
                    THEN i' = i /\ Await("getFallback", SingleByPathRequest(variations[2]))
                    ELSE Return(GetNotFound(args)) /\ i' = i
              [] o = "throw" -> Return(FetchError("request failed")) /\ i' = i
              [] OTHER -> Return(GetNotFound(args)) /\ i' = i
    /\ UNCHANGED <<rev, env, exitCode, tools, listed, name, args, variations, pageId, created,
                   lastReply>>

\* twoAttempt revision: the fallback attempt inside catch (pathError)
GetFallbackReply ==
    /\ pc = "getFallback"
    /\ \E reply \in QueryReplies :
         /\ threw' = (threw \/ reply.shape = "throw")
         /\ found' = IF reply.shape = "page" THEN reply.page.id ELSE found
         /\ answered' = answered + 1
         /\ IF QueryOutcome(rev, reply) = "found"
            THEN Return(PageResult(reply.page))
            ELSE Return(GetNotFound(args))
    /\ UNCHANGED <<rev, env, exitCode, tools, listed, name, args, variations, i, pageId, created,
                   lastReply>>


\* ------------------------------------------------------ wiki_create_page
\* baseParams / requestParams plus the path of the attempt
\* CreateRequest with `args.isPublished || true`
CreateRequestPublishedOr(a, p) ==
    [Request("create") EXCEPT
        !.path = p,
        !.title = a.title,
        !.content = a.content,
        !.editor = IF a.editor.t = "string" /\ a.editor.v # "" THEN a.editor
                   ELSE Field("string", "markdown"),
        !.isPublished = IF a.isPublished.t = "boolean" /\ a.isPublished.v THEN a.isPublished
                        ELSE Field("boolean", TRUE),
        !.description = Field("string", "")]

CreateRequest(a, p) ==
    [Request("create") EXCEPT
        !.path = p,
        !.title = a.title,
        !.content = a.content,
        !.editor = IF a.editor.t = "string" /\ a.editor.v # "" THEN a.editor
                   ELSE Field("string", "markdown"),
        !.isPublished = IF a.isPublished.t # "absent" THEN a.isPublished
                        ELSE Field("boolean", TRUE),
        !.description = Field("string", "")]

\* `Page created successfully:\nTitle: ...\nID: ...\nPath: ...`
CreateSuccess(pg) ==
    ToolCallResult([Text("Page created successfully") EXCEPT
                        !.title = pg.title, !.id = Field("number", pg.id)], FALSE)

CreateExhausted ==
    ToolCallResult(Text("Failed to create page after multiple attempts"), TRUE)

CreateFailed == ToolCallResult(Text("Failed to create page"), TRUE)

CreateUnexpected ==
    ToolCallResult(Text("Page may have been created, but the response format was unexpected"), FALSE)

CreateError(msg) == ToolCallResult([Text("Error creating page") EXCEPT !.msg = msg], TRUE)

\* How each revision reads the response of one create attempt:
\* "success", "next" (go on to the next variant, or give up), or the
\* final results of the single-attempt revisions.
createAttempt(r, reply) ==
    CASE r = "variations" ->
            IF reply.shape = "result" /\ reply.rr = "ok" /\ hasPage(reply)
            THEN "success" ELSE "next"
      [] r = "twoAttempt" ->
            IF reply.shape = "result" /\ reply.rr # "fail" /\ hasPage(reply)
            THEN "success" ELSE "next"
      [] OTHER ->
            CASE reply.shape = "throw" -> "error"
              [] reply.shape = "result" /\ reply.rr = "fail" -> "failed"
              [] reply.shape = "result" /\ hasPage(reply) -> "success"
              [] OTHER -> "unexpected"

CreateStart(a) ==
    /\ IF ~isCreatePageArgs(a)
       THEN Return(OuterCatch("Invalid arguments for wiki_create_page"))
                /\ UNCHANGED <<variations, i>>
       ELSE /\ variations' = attemptPaths(rev, a.path.v)
            /\ i' = 1
            /\ Await("create", CreateRequest(a, variations'[1]))
    /\ UNCHANGED <<pageId, created>>

\* The wiki either creates the page or not; a reply that reports success
\* comes from a wiki that created it, a reply that reports failure from one
\* that did not.  Any other reply, or a transport error, tells nothing.
CreateOutcomes ==
    {o \in [reply : MutationReplies, accepted : BOOLEAN] :
        /\ (o.reply.shape = "result" /\ o.reply.rr = "ok") => o.accepted
        /\ (o.reply.shape = "result" /\ o.reply.rr = "fail") => ~o.accepted}

CreateReply ==
    /\ pc = "create"
    /\ \E o \in CreateOutcomes :
         LET c == createAttempt(rev, o.reply) IN
         /\ created' = created + (IF o.accepted THEN 1 ELSE 0)
         /\ threw' = (threw \/ o.reply.shape = "throw")
         /\ answered' = answered + 1
         /\ lastReply' = IF c = "next" /\ i < Len(variations) THEN lastReply ELSE o.reply
         /\ CASE c = "success" -> Return(CreateSuccess(o.reply.page)) /\ i' = i
              [] c = "next" ->
                    IF i < Len(variations)
                    THEN i' = i + 1 /\ Await("create", CreateRequest(args, variations[i + 1]))
                    ELSE Return(CreateExhausted) /\ i' = i
              [] c = "error" -> Return(CreateError("request failed")) /\ i' = i
              [] c = "failed" -> Return(CreateFailed) /\ i' = i
              [] OTHER -> Return(CreateUnexpected) /\ i' = i
    /\ UNCHANGED <<rev, env, exitCode, tools, listed, name, args, variations, pageId, found>>

\* ------------------------------------------------------ wiki_update_page
\* updateParams built from the caller's id instead of the resolved pageId
UpdateRequestCallerId(idf, a) ==
    [Request("update") EXCEPT
        !.id = a.id,
        !.title = a.title,
        !.content = a.content,
        !.editor = a.editor,
        !.isPublished = a.isPublished]

\* updateParams sent with the create mutation
UpdateRequestAsCreate(idf, a) ==
    [Request("create") EXCEPT
        !.id = idf,
        !.title = a.title,
        !.content = a.content,
        !.editor = a.editor,
        !.isPublished = a.isPublished]

\* updateParams with the defaults of wiki_create_page
UpdateRequestWithDefaults(idf, a) ==
    [Request("update") EXCEPT
        !.id = idf,
        !.title = a.title,
        !.content = a.content,
        !.editor = IF a.editor.t = "string" /\ a.editor.v # "" THEN a.editor
                   ELSE Field("string", "markdown"),
        !.isPublished = IF a.isPublished.t # "absent" THEN a.isPublished
                        ELSE Field("boolean", TRUE)]

UpdateRequest(idf, a) ==
    [Request("update") EXCEPT
        !.id = idf,
        !.title = a.title,
        !.content = a.content,
        !.editor = a.editor,
        !.isPublished = a.isPublished]

UpdateError(msg) == ToolCallResult([Text("Error updating page") EXCEPT !.msg = msg], TRUE)

\* the not-found result with isError false
UpdateNotFoundNoFlag(p) ==
    ToolCallResult([Text("Page not found for path") EXCEPT !.path = p], FALSE)

UpdateNotFound(p) ==
    ToolCallResult([Text("Page not found for path") EXCEPT !.path = p], TRUE)

\* The paths wiki_update_page looks up to resolve a path to an id.
resolvePaths(r, p) ==
    CASE r = "variations" -> generatePathVariations(p)
      [] r = "addSlash" -> <<normalizePathSlash(p)>>
      [] OTHER -> <<normalizePath(p)>>

UpdateStart(a) ==
    /\ IF ~isUpdatePageArgs(a)
       THEN Return(OuterCatch("Invalid arguments for wiki_update_page"))
                /\ UNCHANGED <<variations, i, pageId>>
       ELSE IF ~idTruthy(a.id) /\ pathTruthy(a.path)
       THEN IF a.path.t # "string"
            THEN Return(UpdateError("path.startsWith is not a function"))
                    /\ UNCHANGED <<variations, i>> /\ pageId' = a.id
            ELSE /\ variations' = resolvePaths(rev, a.path.v)
                 /\ i' = 1
                 /\ pageId' = a.id
                 /\ Await("resolve", SingleByPathRequest(variations'[1]))
       ELSE IF ~idTruthy(a.id)
       THEN Return(UpdateError("Could not determine page ID"))
                /\ UNCHANGED <<variations, i>> /\ pageId' = a.id
       ELSE /\ pageId' = a.id
            /\ Await("update", UpdateRequest(a.id, a))
            /\ UNCHANGED <<variations, i>>
    /\ UNCHANGED created

ResolveReply ==
    /\ pc = "resolve"
    /\ \E reply \in QueryReplies :
         /\ threw' = (threw \/ reply.shape = "throw")
         /\ answered' = answered + 1
         /\ found' = IF reply.shape = "page" THEN reply.page.id ELSE found
         /\ CASE reply.shape = "page" ->
                    \* pageId = page.id; a wiki page id is never 0, so the
                    \* `!pageId` check passes and the mutation follows
                    /\ pageId' = Field("number", reply.page.id)
                    /\ i' = i
                    /\ Await("update", UpdateRequest(pageId', args))
              [] rev = "variations" ->
                    \* the loop: a throw is caught per variant
                    /\ pageId' = pageId
                    /\ IF i < Len(variations)
                       THEN i' = i + 1
                                /\ Await("resolve", SingleByPathRequest(variations[i + 1]))
                       ELSE Return(UpdateNotFound(args.path.v)) /\ i' = i
              [] reply.shape = "throw" ->
                    Return(UpdateError("request failed")) /\ i' = i /\ pageId' = pageId
              [] OTHER ->
                    Return(UpdateNotFound(variations[1])) /\ i' = i /\ pageId' = pageId
    /\ UNCHANGED <<rev, env, exitCode, tools, listed, name, args, variations, created, lastReply>>

messageTruthy(m) == m.t = "string" /\ m.v # <<>>

UpdateOk(text) == ToolCallResult(Text(text), FALSE)

\* Response interpretation of the revisions with the known-issue rule
updateResultQuirk(reply) ==
    IF reply.shape = "result" /\ reply.rr # "none"
    THEN IF reply.rr = "ok"
         THEN IF hasPage(reply)
              THEN UpdateOk("Page updated successfully")
              ELSE UpdateOk("Page updated successfully, but no page details were returned")
         ELSE IF messageTruthy(reply.msg) /\ strIncludes(reply.msg.v, QuirkSignature)
              THEN UpdateOk("Page was likely updated successfully despite error")
              ELSE ToolCallResult(Text("Failed to update page"), TRUE)
    ELSE UpdateOk("Page was updated successfully, but the response format was unexpected")

\* Response interpretation of the revisions without it
updateResultPlain(reply) ==
    IF reply.shape = "result" /\ reply.rr = "fail"
    THEN ToolCallResult(Text("Failed to update page"), TRUE)
    ELSE IF reply.shape = "result" /\ hasPage(reply)
    THEN UpdateOk("Page updated successfully")
    ELSE UpdateOk("Page was updated successfully, but the response format was unexpected")

\* updateResult taking a response without pages.update or without
\* responseResult for a failure
updateResultStrict(r, reply) ==
    IF reply.shape = "throw" THEN UpdateError("request failed")
    ELSE IF reply.shape # "result" \/ reply.rr = "none"
    THEN ToolCallResult(Text("Failed to update page"), TRUE)
    ELSE IF r \in {"variations", "twoAttempt"} THEN updateResultQuirk(reply)
    ELSE updateResultPlain(reply)

updateResult(r, reply) ==
    IF reply.shape = "throw" THEN UpdateError("request failed")
    ELSE IF r \in {"variations", "twoAttempt"} THEN updateResultQuirk(reply)
    ELSE updateResultPlain(reply)

UpdateReply ==
    /\ pc = "update"
    /\ \E reply \in MutationReplies :
         /\ lastReply' = reply
         /\ threw' = (threw \/ reply.shape = "throw")
         /\ answered' = answered + 1
         /\ Return(updateResult(rev, reply))
    /\ UNCHANGED <<rev, env, exitCode, tools, listed, name, args, variations, i, pageId, created,
                   found>>

\* ------------------------------------------------------------- dispatch
\* UnknownTool without the error flag
UnknownToolNoFlag(n) == ToolCallResult([Text("Unknown tool") EXCEPT !.name = n], FALSE)

UnknownTool(n) == ToolCallResult([Text("Unknown tool") EXCEPT !.name = n], TRUE)

CallNames == {ToolNames[k] : k \in 1..Len(ToolNames)} \cup {"wiki_delete_page"}

CallTool ==
    /\ pc = "idle"
    /\ \E n \in CallNames :
       \E a \in BagsFor(n) :
         /\ name' = n
         /\ args' = a
         /\ IF a.kind = "absent"
            THEN Return(OuterCatch("No arguments provided"))
                    /\ UNCHANGED <<variations, i, pageId, created>>
            ELSE CASE n = "wiki_list_pages" -> ListStart(a)
                   [] n = "wiki_get_page" -> GetStart(a)
                   [] n = "wiki_create_page" -> CreateStart(a)
                   [] n = "wiki_update_page" -> UpdateStart(a)
                   [] OTHER -> Return(UnknownTool(n))
                                /\ UNCHANGED <<variations, i, pageId, created>>
    /\ UNCHANGED <<rev, env, exitCode, tools, listed, answered, lastReply, found, threw>>

\* The host has the result; the handler keeps nothing of the call.
Settle ==
    /\ pc = "done"
    /\ pc' = "idle"
    /\ name' = ""
    /\ args' = EmptyBag("absent")
    /\ variations' = <<>>
    /\ i' = 0
    /\ pageId' = Field("absent", 0)
    /\ reqs' = <<>>
    /\ created' = 0
    /\ lastReply' = NoReply
    /\ found' = 0
    /\ threw' = FALSE
    /\ listed' = -1
    /\ answered' = 0
    /\ result' = Pending
    /\ UNCHANGED <<rev, env, exitCode, tools>>

Next ==
    \/ Startup
    \/ ListTools
    \/ CallTool
    \/ ListReply
    \/ GetByIdReply
    \/ GetByPathReply
    \/ GetFallbackReply
    \/ CreateReply
    \/ ResolveReply
    \/ UpdateReply
    \/ Settle

Spec == Init /\ [][Next]_vars


\* ================================================================ claims
text == result.content[1].text

Ops(op) == {k \in 1..Len(reqs) : reqs[k].op = op}

IsTextBlock(b) == b.type = "text"

\* C1: whatever the tool name, the argument bag and the behaviour of the
\* wiki, the promise of a CallTool request is never rejected, and the
\* result it resolves with has at least one text content block and a
\* boolean isError.
C1_CallToolAlwaysResolves ==
    /\ result.settled # "rejected"
    /\ pc = "done" =>
         /\ result.settled = "resolved"
         /\ Len(result.content) >= 1
         /\ \A k \in 1..Len(result.content) : IsTextBlock(result.content[k])
         /\ result.isError \in BOOLEAN

\* the list request threw a transport error and the call has resolved with
\* the catch-all's error text
C1_Witness ==
    /\ pc = "done"
    /\ name = "wiki_list_pages"
    /\ threw
    /\ Len(reqs) = 1
    /\ result.settled = "resolved"
    /\ text.kind = "error"
    /\ result.isError

\* C2: while a create mutation of the call is outstanding, the wiki has
\* accepted none of the call's earlier create mutations, so one call creates
\* at most one page.
C2_NoCreateAfterAccepted ==
    /\ (pc = "create" => created = 0)
    /\ created <= 1

IsQuirkFailure(reply) ==
    /\ reply.shape = "result"
    /\ reply.rr = "fail"
    /\ reply.msg = Field("string", QuirkSignature)

\* C3: a wiki_update_page call whose mutation response signals failure with
\* exactly the known message has isError false.
C3_QuirkIsSuccess ==
    (pc = "done" /\ name = "wiki_update_page" /\ IsQuirkFailure(lastReply))
        => ~result.isError


\* The normalized path of the path policy: one leading "/" stripped.
stripLeadingSlash(p) == IF Len(p) >= 1 /\ p[1] = "/" THEN SubSeq(p, 2, Len(p)) ELSE p

\* C4: the first path wiki_get_page, wiki_create_page and wiki_update_page
\* send to the wiki is the normalized path of the path argument.
C4_NormalizedPathFirst ==
    (/\ name \in {"wiki_get_page", "wiki_create_page", "wiki_update_page"}
     /\ Len(reqs) >= 1
     /\ reqs[1].op \in {"singleByPath", "create"})
        => reqs[1].path = stripLeadingSlash(args.path.v)

IsCreateSuccessReply(reply) ==
    reply.shape = "result" /\ reply.rr = "ok" /\ hasPage(reply)

\* C5: a wiki_create_page call whose create mutation for the normalized
\* path the wiki accepted returns isError false with "Title: <title>" of the
\* created page, and has sent no create mutation for any other path.
C5_AcceptedNormalizedCreate ==
    (/\ pc = "done"
     /\ name = "wiki_create_page"
     /\ Len(reqs) >= 1
     /\ reqs[Len(reqs)].path = stripLeadingSlash(args.path.v)
     /\ IsCreateSuccessReply(lastReply))
        => /\ ~result.isError
           /\ text.kind = "Page created successfully"
           /\ text.title = lastReply.page.title
           /\ \A k \in Ops("create") : reqs[k].path = stripLeadingSlash(args.path.v)

\* C6: a wiki_get_page call with only a numeric id has issued exactly one
\* by-id lookup and no by-path lookup when it returns.
C6_GetByIdOnce ==
    (/\ pc = "done"
     /\ name = "wiki_get_page"
     /\ isGetPageArgs(args)
     /\ args.id.t = "number"
     /\ args.path.t = "absent")
        => /\ Cardinality(Ops("single")) = 1
           /\ Ops("singleByPath") = {}

OnlyPathUpdate ==
    /\ name = "wiki_update_page"
    /\ isUpdatePageArgs(args)
    /\ args.id.t = "absent"

\* C7: a wiki_update_page call given only a path issues at most one update
\* mutation; the mutation comes after the by-path lookups, is the last
\* request of the call and carries the id of the page the resolution found;
\* once the resolution has found a page the mutation has been issued.
C7_ResolveThenUpdateOnce ==
    OnlyPathUpdate =>
        /\ Cardinality(Ops("update")) <= 1
        /\ \A k \in Ops("update") :
             /\ k = Len(reqs)
             /\ k >= 2
             /\ \A j \in 1..(k - 1) : reqs[j].op = "singleByPath"
             /\ found # 0
             /\ reqs[k].id = Field("number", found)
        /\ found # 0 => Cardinality(Ops("update")) = 1

\* the page was found at a later variant and the call has returned
C7_Witness ==
    /\ pc = "done"
    /\ OnlyPathUpdate
    /\ found = 2
    /\ Len(reqs) >= 3
    /\ reqs[Len(reqs)].op = "update"
    /\ reqs[Len(reqs)].id = Field("number", 2)

FailedResolution ==
    /\ pc = "done"
    /\ OnlyPathUpdate
    /\ found = 0

\* C8 as stated: a wiki_update_page call given only a path for which no
\* lookup found a page returns the not-found error and issues no mutation.
C8_NotFoundOnFailedResolution ==
    FailedResolution =>
        /\ result.isError
        /\ text.kind = "Page not found for path"
        /\ Ops("update") = {}

\* C8 amended: such a call returns an error result and issues no update
\* mutation; the error is the not-found error exactly when a lookup was
\* made and, outside the variant-loop revision, it did not throw; otherwise
\* (empty path, or a thrown lookup) it is "Error updating page".
C8_ErrorOnFailedResolution ==
    FailedResolution =>
        /\ result.isError
        /\ Ops("update") = {}
        /\ text.kind \in {"Page not found for path", "Error updating page"}
        /\ text.kind = "Page not found for path"
             <=> (Len(reqs) >= 1 /\ (rev = "variations" \/ ~threw))

\* every variant was looked up, none found a page
C8_Witness ==
    /\ FailedResolution
    /\ Len(reqs) = 6
    /\ text.kind = "Page not found for path"
    /\ result.isError

\* C9: wiki_get_page with path x and with path "/" + x (x without a leading
\* slash) issues its first by-path lookup with the key x.
C9_SameLookupKey ==
    (/\ name = "wiki_get_page"
     /\ ~idTruthy(args.id)
     /\ Len(reqs) >= 1
     /\ reqs[1].op = "singleByPath"
     /\ ~startsWith(stripLeadingSlash(args.path.v), "/"))
        => reqs[1].path = stripLeadingSlash(args.path.v)

\* C10: a wiki_create_page call that returns "Failed to create page after
\* multiple attempts" has sent more than one create mutation.
C10_MultipleOnlyIfSeveralTried ==
    (/\ pc = "done"
     /\ name = "wiki_create_page"
     /\ text.kind = "Failed to create page after multiple attempts")
        => Cardinality(Ops("create")) > 1

\* The messages of the argument checks: the check of the bag itself and the
\* shape check of the tool.
InvalidArgumentMessages(n) == {"No arguments provided", "Invalid arguments for " \o n}

IsInvalidArgument ==
    /\ result.isError
    /\ text.kind = "error"
    /\ text.msg \in InvalidArgumentMessages(name)

\* C11: a wiki_get_page call whose arguments have neither id nor path
\* returns isError true with the invalid-arguments message and has issued no
\* request.
C11_GetWithoutKeyIsInvalid ==
    (/\ pc = "done"
     /\ name = "wiki_get_page"
     /\ args.id.t = "absent"
     /\ args.path.t = "absent")
        => IsInvalidArgument /\ reqs = <<>>

\* an argument object with other fields only has been rejected
C11_Witness ==
    /\ pc = "done"
    /\ name = "wiki_get_page"
    /\ args.kind = "object"
    /\ args.id.t = "absent"
    /\ args.path.t = "absent"
    /\ text.msg = "Invalid arguments for wiki_get_page"
    /\ reqs = <<>>

\* C12: a wiki_update_page call whose mutation response signals failure with
\* a message other than the known signature, an absent message included,
\* returns isError true.
C12_OtherFailuresAreErrors ==
    (/\ pc = "done"
     /\ name = "wiki_update_page"
     /\ lastReply.shape = "result"
     /\ lastReply.rr = "fail"
     /\ ~IsQuirkFailure(lastReply))
        => result.isError

\* The text of the result names the key the call looked up.
NamesLookupKey ==
    \/ text.kind = "Page not found for ID" /\ text.id = args.id
    \/ text.kind = "Page not found for path" /\ text.path = args.path.v

\* C13: a wiki_get_page call that has issued a lookup returns either the
\* page with isError false, whatever its content, or an error result whose
\* text names the id or the path that was looked up.
C13_GetFailureNamesKey ==
    (/\ pc = "done"
     /\ name = "wiki_get_page"
     /\ Len(reqs) >= 1)
        => IF text.kind = "page"
           THEN ~result.isError
           ELSE result.isError /\ NamesLookupKey

\* The list request of the call was issued and brought no page list: it
\* threw or its response had none.
ListRequestFailed == Len(reqs) = 1 /\ listed = -1

\* C14 as stated: a wiki_list_pages call, with arguments or without,
\* returns an error result only when its list request has failed.
C14_ListErrorOnlyOnFailedRequest ==
    (/\ pc = "done"
     /\ name = "wiki_list_pages"
     /\ result.isError)
        => ListRequestFailed

\* C14: a wiki_list_pages call returns an error result only when its
\* arguments are not an object, with no request issued, or when its list
\* request has failed; whenever the request returned a page list the result
\* has isError false.
C14_ListErrorOnlyOnBadBagOrFailedRequest ==
    (/\ pc = "done"
     /\ name = "wiki_list_pages")
        => /\ result.isError =>
                \/ args.kind # "object" /\ reqs = <<>> /\ IsInvalidArgument
                \/ args.kind = "object" /\ ListRequestFailed
           /\ listed # -1 => ~result.isError

\* an empty argument object, and the request returned a page list
C14_Witness ==
    /\ pc = "done"
    /\ name = "wiki_list_pages"
    /\ args = EmptyBag("object")
    /\ listed = MaxPages
    /\ ~result.isError

\* C15: a wiki_list_pages call whose list request returned zero records
\* returns the text "No pages found" with isError false.
C15_EmptyListIsNoPagesFound ==
    (/\ pc = "done"
     /\ name = "wiki_list_pages"
     /\ listed = 0)
        => /\ text = Text("No pages found")
           /\ ~result.isError

\* the list request returned an empty list and the call has returned
C15_Witness ==
    /\ pc = "done"
    /\ name = "wiki_list_pages"
    /\ Len(reqs) = 1
    /\ listed = 0
    /\ text.kind = "No pages found"

IsKnownTool(n) == \E k \in 1..Len(ToolNames) : ToolNames[k] = n

\* C16 as stated: a call of a name that is none of the four tools returns
\* the error "Unknown tool: <name>" and issues no request, for every
\* argument bag.
C16_UnknownToolForEveryBag ==
    (pc = "done" /\ ~IsKnownTool(name))
        => /\ result.isError
           /\ text = [Text("Unknown tool") EXCEPT !.name = name]
           /\ reqs = <<>>

\* C16: a call of a name that is none of the four tools returns an error
\* result and issues no request; the text is "Unknown tool: <name>" for
\* every argument bag that is present, and the "No arguments provided"
\* error when the call has no arguments.
C16_UnknownToolForPresentBag ==
    (pc = "done" /\ ~IsKnownTool(name))
        => /\ result.isError
           /\ reqs = <<>>
           /\ IF args.kind = "absent"
              THEN text = [Text("error") EXCEPT !.msg = "No arguments provided"]
              ELSE text = [Text("Unknown tool") EXCEPT !.name = name]

\* an unknown name called with an argument object
C16_Witness ==
    /\ pc = "done"
    /\ ~IsKnownTool(name)
    /\ args.kind = "object"
    /\ text.kind = "Unknown tool"
    /\ text.name = name

\* The arguments lack a required field of the tool, or have it with another
\* type: path, title and content of wiki_create_page; a numeric id or a
\* string path of wiki_update_page.
LacksRequiredField ==
    \/ /\ name = "wiki_create_page"
       /\ \/ args.path.t # "string"
          \/ args.title.t # "string"
          \/ args.content.t # "string"
    \/ /\ name = "wiki_update_page"
       /\ args.id.t # "number"
       /\ args.path.t # "string"

\* C17: a wiki_create_page or wiki_update_page call whose arguments lack a
\* required field returns the invalid-arguments error and has issued no
\* request.
C17_MissingFieldIsInvalid ==
    (pc = "done" /\ LacksRequiredField)
        => IsInvalidArgument /\ reqs = <<>>

\* a wiki_create_page call with path and title but no string content has
\* been rejected
C17_Witness ==
    /\ pc = "done"
    /\ name = "wiki_create_page"
    /\ args.kind = "object"
    /\ args.path.t = "string"
    /\ args.title.t = "string"
    /\ args.content.t # "string"
    /\ text.msg = "Invalid arguments for wiki_create_page"
    /\ reqs = <<>>

\* WIKI_API_URL or WIKI_API_TOKEN is missing or empty.
EnvIncomplete ==
    \/ env.WIKI_API_URL \in {"unset", ""}
    \/ env.WIKI_API_TOKEN \in {"unset", ""}

\* C18: a process started without WIKI_API_URL or WIKI_API_TOKEN, or with
\* an empty one, never gets past startup: it is booting or has exited with
\* a non-zero code, and it has served no ListTools and no CallTool request.
C18_NoServiceWithoutEnv ==
    EnvIncomplete =>
        /\ pc \in {"boot", "exited"}
        /\ pc = "exited" => exitCode > 0
        /\ tools = <<>>
        /\ name = ""
        /\ reqs = <<>>
        /\ result = Pending

\* the URL is set and the token is empty: the process has exited with 1
C18_Witness ==
    /\ pc = "exited"
    /\ exitCode = 1
    /\ env.WIKI_API_URL = "set"
    /\ env.WIKI_API_TOKEN = ""
    /\ tools = <<>>

\* The await points of the handlers: the call waits for a response there.
AwaitPoints == {"list", "getById", "getByPath", "getFallback", "create", "resolve", "update"}

\* Requests of the call that have been issued and have not settled
Outstanding == Len(reqs) - answered

\* The requests that carry a path variant: by-path lookups and create
\* mutations
VariantAttempts == Ops("singleByPath") \cup Ops("create")

\* C20: within one call at most one request is outstanding, and exactly one
\* while the call waits; the k-th variant attempt carries the k-th entry of
\* the call's variant list (the two-attempt revision repeats the last entry
\* once after a throw); once a by-path lookup has returned a page no lookup
\* is outstanding, so none was issued after it.
C20_SequentialStopAtFirstSuccess ==
    /\ Outstanding \in {0, 1}
    /\ Outstanding = 1 <=> pc \in AwaitPoints
    /\ \A k \in VariantAttempts :
         IF k <= Len(variations)
         THEN reqs[k].path = variations[k]
         ELSE /\ rev = "twoAttempt"
              /\ threw
              /\ k = Len(variations) + 1
              /\ reqs[k].path = variations[Len(variations)]
    /\ found # 0 =>
         ~(Outstanding = 1 /\ reqs[Len(reqs)].op = "singleByPath")

\* of a variant list with more than two entries the first lookup found
\* nothing and the second returned the page: the call has returned it
\* without a third lookup
C20_Witness ==
    /\ pc = "done"
    /\ name = "wiki_get_page"
    /\ Len(variations) > 2
    /\ Len(reqs) = 2
    /\ Outstanding = 0
    /\ found # 0
    /\ text.kind = "page"

\* C21: the normalized path a call computes from its path argument is the
\* argument without one leading "/" when it has one, and the argument
\* itself otherwise: nothing after the first character is altered and no
\* slash is added.  The single-attempt and two-attempt handlers send it as
\* their first variant; the variant list holds it as one of its entries.
C21_NormalizedIsStripped ==
    variations # <<>> =>
        IF rev = "variations"
        THEN includes(variations, stripLeadingSlash(args.path.v))
        ELSE variations[1] = stripLeadingSlash(args.path.v)

\* What every create mutation carries besides the editor
CarriesCreateFields(r) ==
    /\ r.title = args.title
    /\ r.content = args.content
    /\ r.isPublished = IF args.isPublished.t = "absent" THEN Field("boolean", TRUE)
                       ELSE args.isPublished
    /\ r.description = Field("string", "")

\* C22 as stated: every create mutation of a wiki_create_page call carries
\* the caller's title and content, the caller's editor or "markdown" when
\* none is given, the caller's isPublished or true when none is given, and
\* the description "".
C22_CreateCarriesCallerFields ==
    name = "wiki_create_page" =>
        \A k \in Ops("create") :
            /\ CarriesCreateFields(reqs[k])
            /\ reqs[k].editor = IF args.editor.t = "absent" THEN Field("string", "markdown")
                                ELSE args.editor

\* C22: every create mutation of a wiki_create_page call carries the
\* caller's title and content, the caller's editor or "markdown" when the
\* editor is not given or is the empty string, the caller's isPublished (a
\* false stays false) or true when none is given, and the description "".
C22_CreateCarriesFieldsOrDefaults ==
    name = "wiki_create_page" =>
        \A k \in Ops("create") :
            /\ CarriesCreateFields(reqs[k])
            /\ reqs[k].editor =
                  IF args.editor.t = "absent" \/ args.editor = Field("string", "")
                  THEN Field("string", "markdown")
                  ELSE args.editor

\* a second create mutation of a call with isPublished false and an empty
\* editor is outstanding
C22_Witness ==
    /\ pc = "create"
    /\ Len(reqs) = 2
    /\ args.isPublished = Field("boolean", FALSE)
    /\ args.editor = Field("string", "")
    /\ reqs[2].isPublished = Field("boolean", FALSE)
    /\ reqs[2].editor = Field("string", "markdown")

C24_CreateSuccessOnlyIfSucceeded ==
    (/\ pc = "done"
     /\ name = "wiki_create_page"
     /\ ~result.isError)
        => IsCreateSuccessReply(lastReply)

\* The update mutation returned a response without pages.update or without
\* responseResult.
IsUnrecognisedUpdateReply(reply) ==
    \/ reply.shape \in {"nodata", "nopages", "nofield"}
    \/ reply.shape = "result" /\ reply.rr = "none"

\* C25: a wiki_update_page call whose update mutation returned a response
\* without pages.update or without responseResult returns isError false.
C25_UnrecognisedUpdateIsSuccess ==
    (/\ pc = "done"
     /\ name = "wiki_update_page"
     /\ IsUnrecognisedUpdateReply(lastReply))
        => ~result.isError

\* the update mutation answered without pages.update and the call reports
\* an update with an unexpected response format
C25_Witness ==
    /\ pc = "done"
    /\ name = "wiki_update_page"
    /\ Ops("update") # {}
    /\ lastReply.shape = "nofield"
    /\ text.kind = "Page was updated successfully, but the response format was unexpected"
    /\ ~result.isError

\* C26: in the variant-loop revision a wiki_get_page call by path that has
\* returned without any lookup returning a page has tried every variant of
\* its list in order, whether lookups threw or found nothing, and its
\* result is the "Page not found for path" error, never the "Error
\* fetching page" error.
C26_ThrowDoesNotEndVariantLoop ==
    (/\ rev = "variations"
     /\ name = "wiki_get_page"
     /\ pc = "done"
     /\ Ops("singleByPath") # {}
     /\ found = 0)
        => /\ Len(reqs) = Len(variations)
           /\ \A k \in 1..Len(reqs) : reqs[k] = SingleByPathRequest(variations[k])
           /\ result.isError
           /\ text = [Text("Page not found for path") EXCEPT !.path = args.path.v]

\* a lookup has thrown, all six variants were tried and the call has
\* returned the not-found error
C26_Witness ==
    /\ rev = "variations"
    /\ name = "wiki_get_page"
    /\ pc = "done"
    /\ threw
    /\ found = 0
    /\ Len(variations) = 6
    /\ Len(reqs) = 6
    /\ text.kind = "Page not found for path"

\* The requests a call of the tool may issue at most: one list request; six
\* lookups; six create mutations; six lookups and one update mutation.
WithinRequestBudget ==
    /\ name = "wiki_list_pages" => Len(reqs) <= 1
    /\ name = "wiki_get_page" => Len(reqs) <= 6
    /\ name = "wiki_create_page" => Len(reqs) <= 6
    /\ name = "wiki_update_page" =>
         /\ Cardinality(Ops("singleByPath")) <= 6
         /\ Cardinality(Ops("update")) <= 1
         /\ Len(reqs) <= 7
    /\ name = "" => reqs = <<>>

\* A step of a call that waits for a response returns the result or issues
\* exactly one more request.
ReplyStep ==
    pc \in AwaitPoints =>
        \/ pc' = "done" /\ reqs' = reqs
        \/ pc' \in AwaitPoints /\ Len(reqs') = Len(reqs) + 1

\* C27: every call stays within the request budget of its tool, and every
\* response it receives makes it return or issue one more request, so a call
\* whose requests all return or throw ends after at most that many requests.
C27_BoundedRequests == []WithinRequestBudget /\ [][ReplyStep]_vars

\* a wiki_update_page call has issued six lookups and its update mutation
C27_Witness ==
    /\ name = "wiki_update_page"
    /\ pc = "done"
    /\ Cardinality(Ops("singleByPath")) = 6
    /\ Cardinality(Ops("update")) = 1

\* The kinds of request a tool issues
RequestKinds(n) ==
    CASE n = "wiki_list_pages" -> {"list"}
      [] n = "wiki_get_page" -> {"single", "singleByPath"}
      [] n = "wiki_create_page" -> {"create"}
      [] n = "wiki_update_page" -> {"single", "singleByPath", "update"}
      [] OTHER -> {}

\* C28: every request of a call is of a kind of its tool: no mutation from
\* wiki_list_pages and wiki_get_page, only create mutations from
\* wiki_create_page, no create mutation from wiki_update_page; when no call
\* is in progress, ListTools included, no request has been issued.
C28_OnlyOwnRequestKinds ==
    /\ \A k \in 1..Len(reqs) : reqs[k].op \in RequestKinds(name)
    /\ pc \in {"boot", "exited", "idle"} => reqs = <<>>

\* a wiki_update_page call has looked up its path and its update mutation
\* is outstanding
C28_Witness ==
    /\ name = "wiki_update_page"
    /\ pc = "update"
    /\ Len(reqs) >= 2
    /\ reqs[1].op = "singleByPath"
    /\ reqs[Len(reqs)].op = "update"

\* C29: a wiki_get_page or wiki_update_page call with a numeric id and a
\* path issues no by-path lookup, and the update mutation carries the
\* caller's id.
C29_IdTakesPrecedence ==
    (/\ name \in {"wiki_get_page", "wiki_update_page"}
     /\ args.id.t = "number"
     /\ args.path.t = "string")
        => /\ Ops("singleByPath") = {}
           /\ \A k \in Ops("update") : reqs[k].id = args.id

\* The path begins with two letters followed by "/".
BeginsWithLanguage(p) ==
    Len(p) >= 3 /\ p[1] \in Letters /\ p[2] \in Letters /\ p[3] = "/"

\* The four entries with the prefixes "ja/", "/ja/", "en/" and "/en/"
PrefixedEntries(n) ==
    {JaPrefix \o n, Slash \o JaPrefix \o n, EnPrefix \o n, Slash \o EnPrefix \o n}

\* C30: the variant list the variant-loop revision computes from a path is
\* non-empty, has no entry twice, holds the normalized path, has 1, 2, 5 or
\* 6 entries, and holds the four language-prefixed entries when the
\* normalized path does not begin with two letters and "/", and none of
\* them when it does.
C30_VariationsWellFormed ==
    (rev = "variations" /\ pc \in {"getByPath", "create", "resolve"}) =>
        LET n == stripLeadingSlash(args.path.v)
            entries == {variations[k] : k \in 1..Len(variations)}
        IN /\ variations # <<>>
           /\ Cardinality(entries) = Len(variations)
           /\ n \in entries
           /\ Len(variations) \in {1, 2, 5, 6}
           /\ IF BeginsWithLanguage(n)
              THEN PrefixedEntries(n) \cap entries = {}
              ELSE PrefixedEntries(n) \subseteq entries

\* the list of a path that begins with two letters and "/" and has no
\* leading slash: the normalized path and the path with a slash
C30_Witness ==
    /\ rev = "variations"
    /\ pc = "create"
    /\ BeginsWithLanguage(args.path.v)
    /\ Len(variations) = 2
    /\ variations[1] = args.path.v
    /\ variations[2] = Slash \o args.path.v

=============================================================================
